---- MODULE Spec2Model ----
(***************************************************************************)
(* Model of the scrcpy bridge: the stream codec (protocol.ts), the         *)
(* connection establisher (adb.ts), the device session (session.ts) and    *)
(* the session registry and relay (ws-bridge.ts).                          *)
(*                                                                         *)
(* Numbers wider than 31 bits are kept as big-endian sequences of 16-bit   *)
(* limbs: a uint32 is <<hi16, lo16>>, a 64-bit pts is four limbs.          *)
(***************************************************************************)
EXTENDS Integers, Sequences, FiniteSets, TLC

VARIABLES
    \* --- stream codec, decoder (protocol.ts VideoStreamParser) ---
    pStream,      \* the bytes the device side sends (input)
    pFrames,      \* the frames pStream was built from (input)
    pPos,         \* how many bytes of pStream have been pushed
    pJoint,       \* some push read the header and emitted a packet
    parser,       \* the VideoStreamParser instance: buf, metaRead, deviceName
    pLog,         \* the header read and the onPacket calls, in order
    \* --- connection establisher (adb.ts connectVideoSocket) ---
    cPort,        \* the port dialled
    cAttempt,     \* the attempt argument of the running tryConnect
    cPhase,       \* "dialing", "backoff" (the 300 ms timer) or "idle"
    cDials,       \* socket.connect calls made so far
    cTimers,      \* retry timers that have fired
    cSock,        \* the socket being dialled (0 is the first one)
    cArmed,       \* its once("error") listener has not run yet
    cConnected,   \* the `connected` flag of connectVideoSocket
    cPromise,     \* the promise: state, and the socket or error it settled with
    \* --- stream codec, encoder (protocol.ts build*) ---
    eIn,          \* the arguments of the builder call (input)
    eOut,         \* what the builder returned
    \* --- input path of one DeviceSession (session.ts send*) ---
    inSess,       \* the session: _closed, controlSocket
    inWrites,     \* the write() calls made on the control socket, in order
    inLast,       \* the last intent handled and Len(inWrites) before it
    \* --- session registry and relay (ws-bridge.ts WsBridge, session.ts) ---
    wsState,      \* each viewer connection: "none", "open" or "closed"
    subscribers,  \* the subscribers Map: serial -> set of viewers
    sessions,     \* the sessions Map: serial -> index into sess
    sess,         \* every DeviceSession constructed, in construction order
    portCounter,  \* the module-level portCounter of session.ts
    pending,      \* startSession calls awaiting listDevices(): <<viewer, serial>>
    last          \* the last handler: the messages it sent, in order, and the
                  \* session it called close() on (0 if none), closed before or not

parserVars == <<pStream, pFrames, pPos, pJoint, parser, pLog>>

connectVars == <<cPort, cAttempt, cPhase, cDials, cTimers, cSock, cArmed,
                 cConnected, cPromise>>

encodeVars == <<eIn, eOut>>

inputVars == <<inSess, inWrites, inLast>>

bridgeVars == <<wsState, subscribers, sessions, sess, portCounter, pending, last>>

vars == <<parserVars, connectVars, encodeVars, inputVars, bridgeVars>>

(***************************************************************************)
(* Bounds                                                                  *)
(***************************************************************************)
MaxFrames == 2
MaxPayload == 2
MaxWrites == 4
MaxSessions == 1
MaxRaceSessions == 2
MaxPending == 2

(***************************************************************************)
(* Bytes and big-endian reads                                              *)
(***************************************************************************)
Byte == 0..255

Limb == 256 * 256

RECURSIVE Fill(_, _)
Fill(b, n) == IF n <= 0 THEN <<>> ELSE <<b>> \o Fill(b, n - 1)

\* buf.slice(from, to): 0-based, end exclusive, clamped to the buffer
Slice(buf, from, to) ==
    SubSeq(buf, from + 1, IF to > Len(buf) THEN Len(buf) ELSE to)

ReadUInt16BE(buf, off) == buf[off + 1] * 256 + buf[off + 2]

\* buf.readUInt32BE(off), as <<hi16, lo16>>
ReadUInt32BE(buf, off) == <<ReadUInt16BE(buf, off), ReadUInt16BE(buf, off + 2)>>

\* n < u for an int n >= 0 and a uint32 u given as limbs
LessThanU32(n, u) ==
    \/ (n \div Limb) < u[1]
    \/ (n \div Limb) = u[1] /\ (n % Limb) < u[2]

\* the int value of a uint32 given as limbs (used only when it fits)
U32ToInt(u) == u[1] * Limb + u[2]

(***************************************************************************)
(* protocol.ts: constants                                                  *)
(***************************************************************************)
PTS_CONFIG == <<65535, 65535, 65535, 65535>>

HeaderLen == 65

FrameHeaderLen == 12

Unknown == <<117, 110, 107, 110, 111, 119, 110>>   \* "unknown"

(***************************************************************************)
(* protocol.ts: VideoStreamParser                                          *)
(***************************************************************************)
\* toString("utf8") of bytes below 128: one code unit per byte
Utf8Ascii(bytes) == [i \in 1..Len(bytes) |-> bytes[i]]

\* .replace(/\0/g, ""): every NUL is removed, not only the trailing ones
RECURSIVE StripNul(_)
StripNul(s) ==
    IF s = <<>> THEN <<>>
    ELSE IF Head(s) = 0 THEN StripNul(Tail(s))
    ELSE <<Head(s)>> \o StripNul(Tail(s))

NewParser == [buf |-> <<>>, metaRead |-> FALSE, deviceName |-> Unknown]

\* pts === PTS_CONFIG, comparing only the high 32 bits
IsConfigHighOnly(pts) == pts[1] = PTS_CONFIG[1] /\ pts[2] = PTS_CONFIG[2]

\* pts === PTS_CONFIG
IsConfig(pts) == pts = PTS_CONFIG

\* the while (true) loop of drain(): <<remaining buf, packets emitted>>
RECURSIVE DrainFrames(_, _)
DrainFrames(buf, out) ==
    IF Len(buf) < FrameHeaderLen THEN [buf |-> buf, packets |-> out]
    ELSE LET ptsHigh == ReadUInt32BE(buf, 0)
             ptsLow  == ReadUInt32BE(buf, 4)
             pts     == ptsHigh \o ptsLow
             size    == ReadUInt32BE(buf, 8)
         IN  IF LessThanU32(Len(buf) - FrameHeaderLen, size)
             THEN [buf |-> buf, packets |-> out]
             ELSE LET n    == U32ToInt(size)
                      data == Slice(buf, FrameHeaderLen, FrameHeaderLen + n)
                      rest == Slice(buf, FrameHeaderLen + n, Len(buf))
                  IN  DrainFrames(rest,
                         Append(out, [type |-> "packet", pts |-> pts,
                                      isConfig |-> IsConfig(pts), data |-> data]))

\* drain() without the early return while the header is incomplete
DrainNoHeaderWait(p) ==
    LET hdr == ~p.metaRead /\ Len(p.buf) >= HeaderLen
        p1  == IF hdr
               THEN [buf |-> Slice(p.buf, HeaderLen, Len(p.buf)),
                     metaRead |-> TRUE,
                     deviceName |-> StripNul(Utf8Ascii(Slice(p.buf, 1, HeaderLen)))]
               ELSE p
        d   == DrainFrames(p1.buf, <<>>)
    IN  [parser |-> [p1 EXCEPT !.buf = d.buf],
         events |-> (IF hdr THEN <<[type |-> "header", name |-> p1.deviceName]>>
                     ELSE <<>>) \o d.packets]

\* drain(): the parser after the call and what the call did, in order
Drain(p) ==
    IF ~p.metaRead /\ Len(p.buf) < HeaderLen
    THEN [parser |-> p, events |-> <<>>]
    ELSE LET hdr == ~p.metaRead
             p1  == IF hdr
                    THEN [buf |-> Slice(p.buf, HeaderLen, Len(p.buf)),
                          metaRead |-> TRUE,
                          deviceName |->
                              StripNul(Utf8Ascii(Slice(p.buf, 1, HeaderLen)))]
                    ELSE p
             d   == DrainFrames(p1.buf, <<>>)
         IN  [parser |-> [p1 EXCEPT !.buf = d.buf],
              events |-> (IF hdr
                          THEN <<[type |-> "header", name |-> p1.deviceName]>>
                          ELSE <<>>) \o d.packets]

\* push() that keeps only the new chunk
ParserPushNoConcat(p, chunk) == Drain([p EXCEPT !.buf = chunk])

\* push(chunk)
ParserPush(p, chunk) == Drain([p EXCEPT !.buf = p.buf \o chunk])

(***************************************************************************)
(* The device side's byte stream (input of the decoder)                    *)
(***************************************************************************)
Pixel4 == <<80, 105, 120, 101, 108, 95, 52>>   \* "Pixel_4"

NameSet == {Pixel4, <<65, 0, 66>>}

\* all ones, all ones in the high half only, zero
TsSeq == <<Fill(255, 8), Fill(255, 4) \o Fill(0, 4), Fill(0, 8),
           Fill(0, 4) \o Fill(255, 4)>>

PayloadOf(n) == [i \in 1..n |-> i]

\* the i-th frame of the stream chosen by (r, sh)
FrameAt(i, r, sh) ==
    [ts   |-> TsSeq[((i + r) % Len(TsSeq)) + 1],
     data |-> PayloadOf((i + sh) % (MaxPayload + 1))]

FrameList(n, r, sh) == [i \in 1..n |-> FrameAt(i, r, sh)]

EncodeHeader(name) == <<0>> \o name \o Fill(0, 64 - Len(name))

EncodeU32(n) == <<(n \div 16777216) % 256, (n \div 65536) % 256,
                  (n \div 256) % 256, n % 256>>

EncodeFrame(f) == f.ts \o EncodeU32(Len(f.data)) \o f.data

RECURSIVE EncodeFrames(_)
EncodeFrames(l) ==
    IF l = <<>> THEN <<>> ELSE EncodeFrame(Head(l)) \o EncodeFrames(Tail(l))

(***************************************************************************)
(* The parts a specification does not use stay as constructed              *)
(***************************************************************************)
ParserIdle ==
    /\ pStream = <<>>
    /\ pFrames = <<>>
    /\ pPos = 0
    /\ pJoint = FALSE
    /\ parser = NewParser
    /\ pLog = <<>>

ConnectIdle ==
    /\ cPort = 0
    /\ cAttempt = 0
    /\ cPhase = "idle"
    /\ cDials = 0
    /\ cTimers = 0
    /\ cSock = 0
    /\ cArmed = FALSE
    /\ cConnected = FALSE
    /\ cPromise = [state |-> "pending"]

EncodeIdle ==
    /\ eIn = [kind |-> "none"]
    /\ eOut = <<>>

InputIdle ==
    /\ inSess = [closed |-> FALSE, controlSocket |-> "null"]
    /\ inWrites = <<>>
    /\ inLast = [kind |-> "none", before |-> 0]

Serials == {"A", "B"}

ViewerSeq == <<"v1", "v2">>

Viewers == {ViewerSeq[i] : i \in 1..Len(ViewerSeq)}

NoOp == [closeOn |-> 0, wasClosed |-> FALSE, sends |-> <<>>]

\* new WsBridge(server): no client, no subscriber, no session
BridgeIdle ==
    /\ wsState = [v \in Viewers |-> "none"]
    /\ subscribers = <<>>
    /\ sessions = <<>>
    /\ sess = <<>>
    /\ portCounter = 0
    /\ pending = {}
    /\ last = NoOp

(***************************************************************************)
(* SpecParser: one parser fed one stream in arbitrary chunks               *)
(***************************************************************************)
InitParser ==
    /\ \E name \in NameSet, n \in 0..MaxFrames,
          r \in 0..(Len(TsSeq) - 1), sh \in 0..MaxPayload :
          /\ pFrames = FrameList(n, r, sh)
          /\ pStream = EncodeHeader(name) \o EncodeFrames(pFrames)
    /\ pPos = 0
    /\ pJoint = FALSE
    /\ parser = NewParser
    /\ pLog = <<>>
    /\ ConnectIdle
    /\ EncodeIdle
    /\ InputIdle
    /\ BridgeIdle

\* the socket delivers the next k bytes and the data handler pushes them
PushChunk ==
    \E k \in 1..(Len(pStream) - pPos) :
        LET r == ParserPush(parser, SubSeq(pStream, pPos + 1, pPos + k))
        IN  /\ parser' = r.parser
            /\ pLog' = pLog \o r.events
            /\ pJoint' = (pJoint \/ (~parser.metaRead /\ Len(r.events) >= 2))
            /\ pPos' = pPos + k
            /\ UNCHANGED <<pStream, pFrames>>
            /\ UNCHANGED <<connectVars, encodeVars, inputVars, bridgeVars>>

NextParser == PushChunk

SpecParser == InitParser /\ [][NextParser]_vars

\* the packets among the events of a log
RECURSIVE Packets(_)
Packets(log) ==
    IF log = <<>> THEN <<>>
    ELSE IF Head(log).type = "packet" THEN <<Head(log)>> \o Packets(Tail(log))
    ELSE Packets(Tail(log))

\* C2. Chunking invariance: whatever the chunks the bytes arrived in, the
\* device name and the ordered packets delivered so far are those of one
\* push() of all the bytes received so far.
C2_ChunkingInvariance ==
    LET whole == ParserPush(NewParser, SubSeq(pStream, 1, pPos))
    IN  /\ pLog = whole.events
        /\ parser.deviceName = whole.parser.deviceName
        /\ parser.buf = whole.parser.buf

\* a whole stream with two frames, delivered in more than one chunk and with
\* the header and the first frame in different chunks
C2_Witness ==
    /\ pPos = Len(pStream)
    /\ Len(Packets(pLog)) >= 2
    /\ ~pJoint

\* C3. Header precedence: no packet is delivered before the 65-byte header
\* has been consumed, and the header is consumed at most once.
C3_HeaderPrecedence ==
    /\ \A i \in 1..Len(pLog) :
          pLog[i].type = "packet" => \E j \in 1..(i - 1) : pLog[j].type = "header"
    /\ Cardinality({i \in 1..Len(pLog) : pLog[i].type = "header"}) <= 1
    /\ parser.metaRead <=> (\E i \in 1..Len(pLog) : pLog[i].type = "header")
    /\ parser.metaRead <=> pPos >= HeaderLen
    /\ ~parser.metaRead => parser.buf = SubSeq(pStream, 1, pPos)
    /\ parser.metaRead =>
          parser.deviceName = StripNul(SubSeq(pStream, 2, HeaderLen))

\* the header and the first whole frame arrived in one push
C3_Witness ==
    /\ pJoint
    /\ Len(pLog) >= 2
    /\ pLog[1].type = "header"
    /\ pLog[2].type = "packet"

\* C8. Sentinel detection: the k-th packet is flagged isConfig exactly when the
\* 8 timestamp bytes of the k-th frame are all 0xFF, its pts is the unsigned
\* big-endian value of those bytes, and its payload is the frame's, of the
\* length the size field gives.
C8_SentinelDetection ==
    LET P == Packets(pLog)
    IN  /\ Len(P) <= Len(pFrames)
        /\ \A k \in 1..Len(P) :
              /\ P[k].isConfig <=> (\A i \in 1..8 : pFrames[k].ts[i] = 255)
              /\ P[k].pts = [i \in 1..4 |->
                                pFrames[k].ts[2 * i - 1] * 256 + pFrames[k].ts[2 * i]]
              /\ P[k].data = pFrames[k].data
              /\ EncodeU32(Len(P[k].data)) =
                    SubSeq(EncodeFrame(pFrames[k]), 9, 12)

\* a config packet, and a packet that is not one although the high half of
\* its timestamp is all ones
C8_Witness ==
    LET P == Packets(pLog)
    IN  /\ \E k \in 1..Len(P) : P[k].isConfig /\ Len(P[k].data) > 0
        /\ \E k \in 1..Len(P) : ~P[k].isConfig /\ P[k].pts[1] = 65535
                                 /\ P[k].pts[2] = 65535

(***************************************************************************)
(* adb.ts: connectVideoSocket / tryConnectNew                              *)
(***************************************************************************)
RetryLimit == 20

Causes == {"ECONNREFUSED", "ECONNRESET"}

\* the once("error") listener of a dialled socket, reject branch taken one
\* attempt early
OnDialErrorEarly(attempt, cause, port) ==
    IF attempt + 1 < RetryLimit
    THEN [retry |-> TRUE]
    ELSE [retry |-> FALSE, error |-> [port |-> port, cause |-> cause]]

\* the once("error") listener of a dialled socket: retry after the delay, or
\* reject with the port and the cause
OnDialError(attempt, cause, port) ==
    IF attempt < RetryLimit
    THEN [retry |-> TRUE]
    ELSE [retry |-> FALSE, error |-> [port |-> port, cause |-> cause]]

\* resolve(socket) / reject(error): a settled promise stays as it is
Settle(promise, outcome) ==
    IF promise.state = "pending" THEN outcome ELSE promise

\* connectVideoSocket(port): the first socket is created and dialled
InitConnect ==
    /\ ParserIdle
    /\ EncodeIdle
    /\ InputIdle
    /\ BridgeIdle
    /\ cPort \in {27200, 27202}
    /\ cAttempt = 0
    /\ cPhase = "dialing"
    /\ cDials = 1
    /\ cTimers = 0
    /\ cSock = 0
    /\ cArmed = TRUE
    /\ cConnected = FALSE
    /\ cPromise = [state |-> "pending"]

\* the connect callback of the socket being dialled
DialOk ==
    /\ cPhase = "dialing"
    /\ cPhase' = "idle"
    /\ cConnected' = (IF cSock = 0 THEN TRUE ELSE cConnected)
    /\ cPromise' = Settle(cPromise, [state |-> "resolved", socket |-> cSock])
    /\ UNCHANGED <<cPort, cAttempt, cDials, cTimers, cSock, cArmed>>
    /\ UNCHANGED <<parserVars, encodeVars, inputVars, bridgeVars>>

\* an error on the current socket, while dialling or after it connected
SocketError ==
    \E cause \in Causes :
        /\ cPhase \in {"dialing", "idle"}
        /\ cArmed
        /\ cArmed' = FALSE
        /\ IF cSock = 0 /\ cConnected
           THEN UNCHANGED <<cPhase, cPromise>>
           ELSE LET r == OnDialError(cAttempt, cause, cPort)
                IN  IF r.retry
                    THEN /\ cPhase' = "backoff"
                         /\ UNCHANGED cPromise
                    ELSE /\ cPhase' = "idle"
                         /\ cPromise' = Settle(cPromise,
                               [state |-> "rejected", error |-> r.error])
        /\ UNCHANGED <<cPort, cAttempt, cDials, cTimers, cSock, cConnected>>
        /\ UNCHANGED <<parserVars, encodeVars, inputVars, bridgeVars>>

\* the 300 ms timer: destroy the socket, dial a new one as attempt + 1
RetryTimer ==
    /\ cPhase = "backoff"
    /\ cPhase' = "dialing"
    /\ cAttempt' = cAttempt + 1
    /\ cSock' = cSock + 1
    /\ cDials' = cDials + 1
    /\ cTimers' = cTimers + 1
    /\ cArmed' = TRUE
    /\ UNCHANGED <<cPort, cConnected, cPromise>>
    /\ UNCHANGED <<parserVars, encodeVars, inputVars, bridgeVars>>

NextConnect == DialOk \/ SocketError \/ RetryTimer

SpecConnect == InitConnect /\ [][NextConnect]_vars

\* C6. Attempt bound: when the promise is rejected, exactly 20 dials were made
\* (and never more than 20 are made while it is pending); the error names the
\* port and the last cause.
C6_AttemptBound ==
    /\ cPromise.state = "rejected" =>
          /\ cDials = RetryLimit
          /\ cPromise.error.port = cPort
    /\ cPromise.state = "pending" => cDials <= RetryLimit

(***************************************************************************)
(* protocol.ts: control message builders                                   *)
(***************************************************************************)
INJECT_KEYCODE == 0

INJECT_TOUCH_EVENT == 2

KEY_DOWN == 0

KEY_UP == 1

KEYCODE_BACK == 4

KEYCODE_HOME == 3

KEYCODE_APP_SWITCH == 187

MaxU16 == 65535

\* the w low bytes of n, big-endian, two's complement for n < 0
\* (writeUInt8, writeUInt16BE, writeInt32BE, writeBigInt64BE)
RECURSIVE WriteBE(_, _)
WriteBE(n, w) ==
    IF w = 0 THEN <<>> ELSE WriteBE(n \div 256, w - 1) \o <<n % 256>>

\* the same bytes, least significant first
RECURSIVE WriteLE(_, _)
WriteLE(n, w) ==
    IF w = 0 THEN <<>> ELSE <<n % 256>> \o WriteLE(n \div 256, w - 1)

\* Math.round of a number given in halves (h = 2 * x): floor(x + 1/2)
MathRound(h) == (h + 1) \div 2

\* buildTouchEvent with x, y and the pressure written least significant
\* byte first
BuildTouchEventLE(action, pointerId, x, y, screenWidth, screenHeight, pressure) ==
    WriteBE(INJECT_TOUCH_EVENT, 1) \o WriteBE(action, 1) \o WriteBE(0, 4)
        \o WriteBE(pointerId, 8)
        \o WriteLE(MathRound(x), 4) \o WriteLE(MathRound(y), 4)
        \o WriteBE(screenWidth, 2) \o WriteBE(screenHeight, 2)
        \o WriteLE(MathRound(pressure * MaxU16), 2)

\* buildTouchEvent(action, pointerId, x, y, screenWidth, screenHeight,
\* pressure); x, y and pressure are given in halves, every argument within
\* the range of its field (the Buffer writes throw outside it)
BuildTouchEvent(action, pointerId, x, y, screenWidth, screenHeight, pressure) ==
    WriteBE(INJECT_TOUCH_EVENT, 1) \o WriteBE(action, 1) \o WriteBE(0, 4)
        \o WriteBE(pointerId, 8)
        \o WriteBE(MathRound(x), 4) \o WriteBE(MathRound(y), 4)
        \o WriteBE(screenWidth, 2) \o WriteBE(screenHeight, 2)
        \o WriteBE(MathRound(pressure * MaxU16), 2)

\* the default of the pressure parameter, 1.0, in halves
DefaultPressure == 2

\* buildKeycode(action, keycode, metaState = 0)
BuildKeycode(action, keycode, metaState) ==
    WriteBE(INJECT_KEYCODE, 1) \o WriteBE(action, 1) \o WriteBE(keycode, 4)
        \o WriteBE(0, 4) \o WriteBE(metaState, 4)

\* buildBackButton with the release before the press
BuildBackButtonSwapped ==
    <<BuildKeycode(KEY_UP, KEYCODE_BACK, 0), BuildKeycode(KEY_DOWN, KEYCODE_BACK, 0)>>

BuildBackButton ==
    <<BuildKeycode(KEY_DOWN, KEYCODE_BACK, 0), BuildKeycode(KEY_UP, KEYCODE_BACK, 0)>>

BuildHomeButton ==
    <<BuildKeycode(KEY_DOWN, KEYCODE_HOME, 0), BuildKeycode(KEY_UP, KEYCODE_HOME, 0)>>

BuildAppSwitchButton ==
    <<BuildKeycode(KEY_DOWN, KEYCODE_APP_SWITCH, 0),
      BuildKeycode(KEY_UP, KEYCODE_APP_SWITCH, 0)>>

(***************************************************************************)
(* Reading a message back (the device side's view of the bytes)            *)
(***************************************************************************)
\* the unsigned big-endian value of w bytes at offset off
RECURSIVE ReadUBE(_, _, _)
ReadUBE(buf, off, w) ==
    IF w = 0 THEN 0 ELSE ReadUBE(buf, off, w - 1) * 256 + buf[off + w]

\* the unsigned value of the bitwise complement of those bytes
RECURSIVE ReadComplBE(_, _, _)
ReadComplBE(buf, off, w) ==
    IF w = 0 THEN 0 ELSE ReadComplBE(buf, off, w - 1) * 256 + (255 - buf[off + w])

\* the signed (two's complement) big-endian value of w bytes at offset off
ReadSBE(buf, off, w) ==
    IF buf[off + 1] >= 128 THEN 0 - ReadComplBE(buf, off, w) - 1
    ELSE ReadUBE(buf, off, w)

(***************************************************************************)
(* SpecEncode: buildTouchEvent applied to arguments drawn from small sets  *)
(***************************************************************************)
TouchArgs ==
    [kind : {"touch"}, action : {0, 1, 2}, pointerId : {0, 3, -1},
     x : {240, 241, -3}, y : {680, 0}, screenWidth : {1080, MaxU16},
     screenHeight : {1920, 0}, pressure : {DefaultPressure, 1, 0}]

InitEncode ==
    /\ ParserIdle
    /\ ConnectIdle
    /\ InputIdle
    /\ BridgeIdle
    /\ eIn \in TouchArgs
    /\ eOut = <<>>

EncodeTouch ==
    /\ eOut = <<>>
    /\ eOut' = BuildTouchEvent(eIn.action, eIn.pointerId, eIn.x, eIn.y,
                               eIn.screenWidth, eIn.screenHeight, eIn.pressure)
    /\ UNCHANGED <<eIn, parserVars, connectVars, inputVars, bridgeVars>>

NextEncode == EncodeTouch

SpecEncode == InitEncode /\ [][NextEncode]_vars

\* C10. buildTouchEvent returns 28 bytes: tag 2, the action, four zero bytes,
\* the pointer id (8, signed), x (4), y (4), the surface width (2) and height
\* (2) and the pressure (2, 0xFFFF for the default 1.0), all big-endian; the
\* call (press, 3, 120, 340, 1080, 1920) gives exactly the bytes below.
C10_TouchLayout ==
    eOut # <<>> =>
        /\ Len(eOut) = 28
        /\ \A i \in 1..28 : eOut[i] \in Byte
        /\ eOut[1] = 2
        /\ eOut[2] = eIn.action
        /\ SubSeq(eOut, 3, 6) = <<0, 0, 0, 0>>
        /\ ReadSBE(eOut, 6, 8) = eIn.pointerId
        /\ ReadSBE(eOut, 14, 4) = MathRound(eIn.x)
        /\ ReadSBE(eOut, 18, 4) = MathRound(eIn.y)
        /\ ReadUBE(eOut, 22, 2) = eIn.screenWidth
        /\ ReadUBE(eOut, 24, 2) = eIn.screenHeight
        /\ eIn.pressure = DefaultPressure => SubSeq(eOut, 27, 28) = <<255, 255>>
        /\ eIn.pressure = 1 => ReadUBE(eOut, 26, 2) = 32768
        /\ eIn.pressure = 0 => ReadUBE(eOut, 26, 2) = 0
        /\ (/\ eIn.action = 0 /\ eIn.pointerId = 3 /\ eIn.x = 240 /\ eIn.y = 680
            /\ eIn.screenWidth = 1080 /\ eIn.screenHeight = 1920
            /\ eIn.pressure = DefaultPressure)
           => eOut = <<2, 0, 0, 0, 0, 0, 0, 0, 0, 0, 0, 0, 0, 3,
                       0, 0, 0, 120, 0, 0, 1, 84, 4, 56, 7, 128, 255, 255>>

\* the call of the claim's example has been made
C10_Witness ==
    /\ eOut # <<>>
    /\ eIn.action = 0 /\ eIn.pointerId = 3 /\ eIn.x = 240 /\ eIn.y = 680
    /\ eIn.screenWidth = 1080 /\ eIn.screenHeight = 1920
    /\ eIn.pressure = DefaultPressure

(***************************************************************************)
(* session.ts: the input path of a DeviceSession                           *)
(***************************************************************************)
\* actionMap of sendTouch
ActionMap(a) == CASE a = "down" -> 0 [] a = "up" -> 1 [] a = "move" -> 2

TouchPayloads ==
    [action : {"down", "up", "move"}, pointerId : {3}, x : {240}, y : {680},
     screenWidth : {1080}, screenHeight : {1920}]

\* controlSocket.write(b) for each message, in order
WriteAll(writes, sock, msgs) ==
    writes \o [i \in 1..Len(msgs) |-> [bytes |-> msgs[i], to |-> sock]]

\* this.controlSocket?.write(b) for each message of a helper
WriteIfSocket(writes, ds, msgs) ==
    IF ds.controlSocket = "null" THEN writes
    ELSE WriteAll(writes, ds.controlSocket, msgs)

\* start() has finished: the control connection was made or not, and the
\* session may have been closed while start() was still connecting
InitInput ==
    /\ ParserIdle
    /\ ConnectIdle
    /\ EncodeIdle
    /\ BridgeIdle
    /\ inSess \in [closed : BOOLEAN, controlSocket : {"null", "open"}]
    /\ inWrites = <<>>
    /\ inLast = [kind |-> "none", before |-> 0]

\* sendTouch(payload)
SendTouch ==
    \E payload \in TouchPayloads :
        /\ Len(inWrites) + 2 <= MaxWrites
        /\ inLast' = [kind |-> "touch", before |-> Len(inWrites)]
        /\ inWrites' =
              IF inSess.controlSocket = "null" \/ inSess.closed THEN inWrites
              ELSE WriteAll(inWrites, inSess.controlSocket,
                     <<BuildTouchEvent(ActionMap(payload.action), payload.pointerId,
                                       payload.x, payload.y, payload.screenWidth,
                                       payload.screenHeight, DefaultPressure)>>)
        /\ UNCHANGED <<inSess, parserVars, connectVars, encodeVars, bridgeVars>>

\* sendBack()
SendBack ==
    /\ Len(inWrites) + 2 <= MaxWrites
    /\ inLast' = [kind |-> "back", before |-> Len(inWrites)]
    /\ inWrites' = WriteIfSocket(inWrites, inSess, BuildBackButton)
    /\ UNCHANGED <<inSess, parserVars, connectVars, encodeVars, bridgeVars>>

\* sendHome()
SendHome ==
    /\ Len(inWrites) + 2 <= MaxWrites
    /\ inLast' = [kind |-> "home", before |-> Len(inWrites)]
    /\ inWrites' = WriteIfSocket(inWrites, inSess, BuildHomeButton)
    /\ UNCHANGED <<inSess, parserVars, connectVars, encodeVars, bridgeVars>>

\* sendAppSwitch()
SendAppSwitch ==
    /\ Len(inWrites) + 2 <= MaxWrites
    /\ inLast' = [kind |-> "appswitch", before |-> Len(inWrites)]
    /\ inWrites' = WriteIfSocket(inWrites, inSess, BuildAppSwitchButton)
    /\ UNCHANGED <<inSess, parserVars, connectVars, encodeVars, bridgeVars>>

\* close(), as far as the input path sees it
CloseInput ==
    /\ inLast' = [kind |-> "close", before |-> Len(inWrites)]
    /\ inSess' =
          IF inSess.closed THEN inSess
          ELSE [closed |-> TRUE,
                controlSocket |-> IF inSess.controlSocket = "null" THEN "null"
                                  ELSE "destroyed"]
    /\ UNCHANGED <<inWrites, parserVars, connectVars, encodeVars, bridgeVars>>

NextInput == SendTouch \/ SendBack \/ SendHome \/ SendAppSwitch \/ CloseInput

SpecInput == InitInput /\ [][NextInput]_vars

\* the 14-byte key message: tag INJECT_KEYCODE (0), the action, the keycode
\* (4 bytes big-endian), repeat 0 (4 bytes), modifier state 0 (4 bytes)
KeyMessage(action, keycode) ==
    <<0, action, 0, 0, 0, keycode, 0, 0, 0, 0, 0, 0, 0, 0>>

NavKeycode(kind) ==
    CASE kind = "back" -> 4 [] kind = "home" -> 3 [] kind = "appswitch" -> 187

\* C9. Each navigation helper yields exactly two 14-byte key messages, the
\* press (action 0) and then the release (action 1) of its keycode (back 4,
\* home 3, app-switch 187), repeat and modifier state zero; a session with a
\* control socket writes exactly these two, in this order.
C9_NavKeys ==
    /\ BuildBackButton = <<KeyMessage(0, 4), KeyMessage(1, 4)>>
    /\ BuildHomeButton = <<KeyMessage(0, 3), KeyMessage(1, 3)>>
    /\ BuildAppSwitchButton = <<KeyMessage(0, 187), KeyMessage(1, 187)>>
    /\ inLast.kind \in {"back", "home", "appswitch"} =>
          IF inSess.controlSocket = "null"
          THEN Len(inWrites) = inLast.before
          ELSE /\ Len(inWrites) = inLast.before + 2
               /\ inWrites[inLast.before + 1].bytes =
                     KeyMessage(0, NavKeycode(inLast.kind))
               /\ inWrites[inLast.before + 2].bytes =
                     KeyMessage(1, NavKeycode(inLast.kind))

\* app-switch was sent on a session with a control socket, after other input
C9_Witness ==
    /\ inLast.kind = "appswitch"
    /\ inLast.before > 0
    /\ Len(inWrites) = inLast.before + 2

(***************************************************************************)
(* session.ts: port allocator and DeviceSession                            *)
(***************************************************************************)
PORT_BASE == 27200

PortStride == 2

\* nextPorts() that does not advance portCounter
NextPortsNoIncrement(counter) ==
    [videoPort |-> PORT_BASE + counter * PortStride, counter |-> counter]

\* nextPorts(): PORT_BASE + portCounter++ * 2
NextPorts(counter) ==
    [videoPort |-> PORT_BASE + counter * PortStride, counter |-> counter + 1]

\* new DeviceSession(device), then start() up to its first await (pushServer)
NewSession(serial, videoPort) ==
    [serial |-> serial, videoPort |-> videoPort, closed |-> FALSE,
     deviceName |-> Unknown, pc |-> "push",
     videoSocket |-> "null", controlSocket |-> "null", serverProc |-> "null",
     forward |-> FALSE, parser |-> NewParser, spos |-> 0,
     closedEmits |-> 0, killCalls |-> 0, removeCalls |-> 0]

\* socket.destroy(): an open socket is destroyed. Its 'close' event follows,
\* and finds _closed set (destroy() is called by close() only), so that the
\* close listener does nothing then: the event is not modelled
Destroy(sock) == IF sock = "open" THEN "destroyed" ELSE sock

\* close() without the _closed guard
CloseSessionNoGuard(r) ==
    [r EXCEPT !.closed = TRUE,
              !.videoSocket = Destroy(r.videoSocket),
              !.controlSocket = Destroy(r.controlSocket),
              !.serverProc = IF r.serverProc = "null" THEN "null" ELSE "killed",
              !.killCalls = IF r.serverProc = "null" THEN @ ELSE @ + 1,
              !.forward = FALSE,
              !.removeCalls = @ + 1,
              !.closedEmits = @ + 1]

\* close(): the session after the call; closedEmits counts emit("closed")
CloseSession(r) ==
    IF r.closed THEN r
    ELSE [r EXCEPT !.closed = TRUE,
                   !.videoSocket = Destroy(r.videoSocket),
                   !.controlSocket = Destroy(r.controlSocket),
                   !.serverProc = IF r.serverProc = "null" THEN "null" ELSE "killed",
                   !.killCalls = IF r.serverProc = "null" THEN @ ELSE @ + 1,
                   !.forward = FALSE,
                   !.removeCalls = @ + 1,
                   !.closedEmits = @ + 1]

(***************************************************************************)
(* The device side of a session: its name and the bytes it sends           *)
(***************************************************************************)
DeviceNameOf(serial) == IF serial = "A" THEN Pixel4 ELSE <<66>>

SessionFrames ==
    <<[ts |-> Fill(255, 8), data |-> <<1, 2, 3, 4>>],
      [ts |-> Fill(0, 7) \o <<1>>, data |-> <<>>]>>

SessionStream(serial) ==
    EncodeHeader(DeviceNameOf(serial)) \o EncodeFrames(SessionFrames)

\* where the socket may end a chunk: after the header, at the end of the
\* stream, and for device B also between the two frames
StreamCuts(serial) ==
    {HeaderLen, Len(SessionStream(serial))}
        \cup (IF serial = "B"
              THEN {HeaderLen + Len(EncodeFrame(SessionFrames[1]))} ELSE {})

(***************************************************************************)
(* ws-bridge.ts: WsBridge                                                  *)
(***************************************************************************)
MapSet(m, k, val) == [x \in DOMAIN m \cup {k} |-> IF x = k THEN val ELSE m[x]]

MapDelete(m, k) == [x \in DOMAIN m \ {k} |-> m[x]]

Msg(to, type, serial, sid, body) ==
    [to |-> to, type |-> type, serial |-> serial, sid |-> sid, body |-> body]

\* one message to each viewer of the set, in the order of ViewerSeq
RECURSIVE SendEach(_, _, _, _, _, _)
SendEach(i, set, type, serial, sid, body) ==
    IF i > Len(ViewerSeq) THEN <<>>
    ELSE (IF ViewerSeq[i] \in set
          THEN <<Msg(ViewerSeq[i], type, serial, sid, body)>> ELSE <<>>)
         \o SendEach(i + 1, set, type, serial, sid, body)

OpenViewers == {v \in Viewers : wsState[v] = "open"}

\* send(ws, msg): only to a connection whose readyState is OPEN
Send(v, type, serial, sid, body) ==
    IF wsState[v] = "open" THEN <<Msg(v, type, serial, sid, body)>> ELSE <<>>

\* broadcast(serial, msg): nothing without a subscriber set; else to the open
\* subscribers, and then to every open client of the server
Broadcast(type, serial, sid, body) ==
    IF serial \notin DOMAIN subscribers THEN <<>>
    ELSE SendEach(1, subscribers[serial] \cap OpenViewers, type, serial, sid, body)
         \o SendEach(1, OpenViewers, type, serial, sid, body)

\* the frame handler sending to every open client
FrameRecipientsAllClients(serial) == OpenViewers

\* the frame handler: the open connections of the serial's subscriber set
FrameRecipients(serial) ==
    IF serial \notin DOMAIN subscribers THEN {}
    ELSE subscribers[serial] \cap OpenViewers

\* the frame handler run for the packets of one push last to first
RECURSIVE RelayFramesReversed(_, _, _)
RelayFramesReversed(packets, serial, sid) ==
    IF packets = <<>> THEN <<>>
    ELSE RelayFramesReversed(Tail(packets), serial, sid)
         \o SendEach(1, FrameRecipients(serial), "frame", serial, sid, Head(packets))

\* session.on("frame"), for each packet of one push, in order
RECURSIVE RelayFrames(_, _, _)
RelayFrames(packets, serial, sid) ==
    IF packets = <<>> THEN <<>>
    ELSE SendEach(1, FrameRecipients(serial), "frame", serial, sid, Head(packets))
         \o RelayFrames(Tail(packets), serial, sid)

\* what close() of session id does to the registry: the session after the
\* call, and the closed handler (sessions.delete, broadcast) if closed was
\* emitted
CloseResult(id) ==
    LET r == CloseSession(sess[id])
        emitted == r.closedEmits > sess[id].closedEmits
    IN  [sess |-> [sess EXCEPT ![id] = r],
         sessions |-> IF emitted THEN MapDelete(sessions, r.serial) ELSE sessions,
         sends |-> IF emitted THEN Broadcast("sessionClosed", r.serial, id, "")
                   ELSE <<>>]

\* a handler that sent these messages and did not call close()
Op(sends) == [closeOn |-> 0, wasClosed |-> FALSE, sends |-> sends]

\* a handler that called close() on session id and sent these messages
CloseOp(id, sends) ==
    [closeOn |-> id, wasClosed |-> sess[id].closed, sends |-> sends]

others == <<parserVars, connectVars, encodeVars, inputVars>>

\* wss.on("connection"): connections are named in the order they are accepted
Connect(v) ==
    /\ wsState[v] = "none"
    /\ \A i \in 1..Len(ViewerSeq) :
          ViewerSeq[i] = v => \A j \in 1..(i - 1) : wsState[ViewerSeq[j]] # "none"
    /\ wsState' = [wsState EXCEPT ![v] = "open"]
    /\ last' = Op(<<>>)
    /\ UNCHANGED <<subscribers, sessions, sess, portCounter, pending, others>>

\* ws.on("close") that leaves the subscriber sets as they are
DisconnectKeepSubscribers(v) ==
    /\ wsState[v] = "open"
    /\ wsState' = [wsState EXCEPT ![v] = "closed"]
    /\ last' = Op(<<>>)
    /\ UNCHANGED <<subscribers, sessions, sess, portCounter, pending, others>>

\* ws.on("close"): the connection leaves every subscriber set, empty sets
\* are deleted
Disconnect(v) ==
    /\ wsState[v] = "open"
    /\ wsState' = [wsState EXCEPT ![v] = "closed"]
    /\ subscribers' =
          [s \in {t \in DOMAIN subscribers : subscribers[t] \ {v} # {}} |->
              subscribers[s] \ {v}]
    /\ last' = Op(<<>>)
    /\ UNCHANGED <<sessions, sess, portCounter, pending, others>>

\* startSession(ws, serial) up to its first await: subscribe, then ack if
\* the serial has a session, else go on to listDevices()
StartSession(v, s) ==
    /\ wsState[v] = "open"
    /\ <<v, s>> \notin pending
    /\ s \in DOMAIN sessions \/ Cardinality(pending) < MaxPending
    /\ subscribers' =
          MapSet(subscribers, s,
                 (IF s \in DOMAIN subscribers THEN subscribers[s] ELSE {}) \cup {v})
    /\ IF s \in DOMAIN sessions
       THEN /\ last' = Op(Send(v, "sessionStarted", s, sessions[s],
                         sess[sessions[s]].deviceName))
            /\ UNCHANGED pending
       ELSE /\ last' = Op(<<>>)
            /\ pending' = pending \cup {<<v, s>>}
    /\ UNCHANGED <<wsState, sessions, sess, portCounter, others>>

\* startSession after listDevices(): error if the device is not listed, else
\* construct the session, store it under the serial, call start(); at most
\* cap sessions are constructed
ListDevicesDone(v, s, cap) ==
    /\ <<v, s>> \in pending
    /\ pending' = pending \ {<<v, s>>}
    /\ \E found \in BOOLEAN :
          IF ~found
          THEN /\ last' = Op(Send(v, "error", s, 0, "Device not found"))
               /\ UNCHANGED <<sessions, sess, portCounter>>
          ELSE /\ Len(sess) < cap
               /\ LET np == NextPorts(portCounter)
                  IN  /\ portCounter' = np.counter
                      /\ sess' = Append(sess, NewSession(s, np.videoPort))
               /\ sessions' = MapSet(sessions, s, Len(sess) + 1)
               /\ last' = Op(<<>>)
    /\ UNCHANGED <<wsState, subscribers, others>>

\* startSession when listDevices() rejects: the rejection leaves startSession
\* and the message handler that awaits it, nothing catches it and nothing
\* is sent; the subscription made before the await stays. (A runtime set to
\* end the process on an unhandled rejection ends it here.)
ListDevicesRejected(v, s) ==
    /\ <<v, s>> \in pending
    /\ pending' = pending \ {<<v, s>>}
    /\ last' = Op(<<>>)
    /\ UNCHANGED <<wsState, subscribers, sessions, sess, portCounter, others>>

\* the catch of startSession without sessions.delete(serial)
StartFailedKeepEntry(id) ==
    /\ sess' = [sess EXCEPT ![id].pc = "failed"]
    /\ sessions' = sessions
    /\ last' = Op(Broadcast("error", sess[id].serial, id, "Failed to start session"))
    /\ UNCHANGED <<wsState, subscribers, portCounter, pending, others>>

\* the catch of startSession: start() rejected
StartFailed(id) ==
    /\ sess' = [sess EXCEPT ![id].pc = "failed"]
    /\ sessions' = MapDelete(sessions, sess[id].serial)
    /\ last' = Op(Broadcast("error", sess[id].serial, id, "Failed to start session"))
    /\ UNCHANGED <<wsState, subscribers, portCounter, pending, others>>

\* start(): pushServer settled, either way; setupForward is called
PushDone(id) ==
    /\ sess[id].pc = "push"
    /\ sess' = [sess EXCEPT ![id].pc = "forward"]
    /\ last' = Op(<<>>)
    /\ UNCHANGED <<wsState, subscribers, sessions, portCounter, pending, others>>

\* start(): setupForward resolved; the server process is spawned, sleep(500)
ForwardOk(id) ==
    /\ sess[id].pc = "forward"
    /\ sess' = [sess EXCEPT ![id].pc = "sleep", ![id].forward = TRUE,
                            ![id].serverProc = "running"]
    /\ last' = Op(<<>>)
    /\ UNCHANGED <<wsState, subscribers, sessions, portCounter, pending, others>>

\* start(): setupForward rejected
ForwardFail(id) ==
    /\ sess[id].pc = "forward"
    /\ StartFailed(id)

\* start(): the sleep is over; connectVideoSocket is called
SleepDone(id) ==
    /\ sess[id].pc = "sleep"
    /\ sess' = [sess EXCEPT ![id].pc = "connectVideo"]
    /\ last' = Op(<<>>)
    /\ UNCHANGED <<wsState, subscribers, sessions, portCounter, pending, others>>

\* start(): the video socket is connected; the control connection is dialled
ConnectVideoOk(id) ==
    /\ sess[id].pc = "connectVideo"
    /\ sess' = [sess EXCEPT ![id].pc = "connectControl", ![id].videoSocket = "open"]
    /\ last' = Op(<<>>)
    /\ UNCHANGED <<wsState, subscribers, sessions, portCounter, pending, others>>

\* start(): connectVideoSocket rejected
ConnectVideoFail(id) ==
    /\ sess[id].pc = "connectVideo"
    /\ StartFailed(id)

\* start() where a failed control connection rejects the start
ConnectControlFatal(id) ==
    /\ sess[id].pc = "connectControl"
    /\ \/ /\ sess' = [sess EXCEPT ![id].pc = "started", ![id].controlSocket = "open"]
          /\ last' = Op(<<>>)
          /\ UNCHANGED <<wsState, subscribers, sessions, portCounter, pending, others>>
       \/ StartFailed(id)

\* start(): the control connection settled; the parser and the socket
\* listeners are wired
ConnectControlDone(id) ==
    /\ sess[id].pc = "connectControl"
    /\ \E ok \in BOOLEAN :
          sess' = [sess EXCEPT ![id].pc = "started",
                              ![id].controlSocket = IF ok THEN "open" ELSE "null"]
    /\ last' = Op(<<>>)
    /\ UNCHANGED <<wsState, subscribers, sessions, portCounter, pending, others>>

\* videoSock.on("data"): push the chunk, relay the packets, then emit
\* deviceName if the parser's name differs from the session's
Data(id) ==
    /\ sess[id].pc = "started"
    /\ sess[id].videoSocket = "open"
    /\ \E cut \in StreamCuts(sess[id].serial) :
          /\ cut > sess[id].spos
          /\ LET r == ParserPush(sess[id].parser,
                         SubSeq(SessionStream(sess[id].serial), sess[id].spos + 1, cut))
                 named == sess[id].deviceName # r.parser.deviceName
             IN  /\ sess' = [sess EXCEPT ![id].parser = r.parser,
                                         ![id].spos = cut,
                                         ![id].deviceName = r.parser.deviceName]
                 /\ last' = Op(RelayFrames(Packets(r.events), sess[id].serial, id)
                       \o (IF named
                           THEN Broadcast("sessionStarted", sess[id].serial, id,
                                          r.parser.deviceName)
                           ELSE <<>>))
    /\ UNCHANGED <<wsState, subscribers, sessions, portCounter, pending, others>>

\* the video socket's 'close' event when the peer ends the connection;
\* before the listeners are wired nobody hears it
VideoClose(id) ==
    /\ sess[id].videoSocket = "open"
    /\ LET heard == sess[id].pc = "started" /\ ~sess[id].closed
           c == CloseResult(id)
       IN  /\ sess' = [(IF heard THEN c.sess ELSE sess) EXCEPT ![id].videoSocket = "ended"]
           /\ sessions' = IF heard THEN c.sessions ELSE sessions
           /\ last' = IF heard THEN CloseOp(id, c.sends) ELSE Op(<<>>)
    /\ UNCHANGED <<wsState, subscribers, portCounter, pending, others>>

\* videoSock.on("error"): emit error, then close()
VideoError(id) ==
    /\ sess[id].pc = "started"
    /\ sess[id].videoSocket = "open"
    /\ LET c == CloseResult(id)
       IN  /\ sess' = [c.sess EXCEPT ![id].videoSocket = "destroyed"]
           /\ sessions' = c.sessions
           /\ last' = CloseOp(id,
                         Broadcast("error", sess[id].serial, id, "socket error")
                         \o c.sends)
    /\ UNCHANGED <<wsState, subscribers, portCounter, pending, others>>

\* the control socket's 'close' event when the peer ends the connection:
\* start() registers no listener on the control socket
ControlClose(id) ==
    /\ sess[id].controlSocket = "open"
    /\ sess' = [sess EXCEPT ![id].controlSocket = "ended"]
    /\ last' = Op(<<>>)
    /\ UNCHANGED <<wsState, subscribers, sessions, portCounter, pending, others>>

\* stopSession(serial) that also drops the subscriber set of the serial
StopSessionUnsubscribes(v, s) ==
    /\ wsState[v] = "open"
    /\ IF s \in DOMAIN sessions
       THEN LET c == CloseResult(sessions[s])
            IN  /\ sess' = c.sess
                /\ sessions' = c.sessions
                /\ last' = CloseOp(sessions[s], c.sends)
       ELSE /\ last' = Op(<<>>)
            /\ UNCHANGED <<sess, sessions>>
    /\ subscribers' = MapDelete(subscribers, s)
    /\ UNCHANGED <<wsState, portCounter, pending, others>>

\* stopSession(serial): this.sessions.get(serial)?.close()
StopSession(v, s) ==
    /\ wsState[v] = "open"
    /\ IF s \in DOMAIN sessions
       THEN LET c == CloseResult(sessions[s])
            IN  /\ sess' = c.sess
                /\ sessions' = c.sessions
                /\ last' = CloseOp(sessions[s], c.sends)
       ELSE /\ last' = Op(<<>>)
            /\ UNCHANGED <<sess, sessions>>
    /\ UNCHANGED <<wsState, subscribers, portCounter, pending, others>>

InitBridge ==
    /\ ParserIdle
    /\ ConnectIdle
    /\ EncodeIdle
    /\ InputIdle
    /\ BridgeIdle

\* the steps of session id: start() resuming, and its socket's events
SessionStep(id) ==
    \/ PushDone(id) \/ ForwardOk(id) \/ ForwardFail(id) \/ SleepDone(id)
    \/ ConnectVideoOk(id) \/ ConnectVideoFail(id) \/ ConnectControlDone(id)
    \/ Data(id) \/ VideoClose(id) \/ VideoError(id)

(***************************************************************************)
(* Spec: two viewers, two serials, one session                             *)
(***************************************************************************)
Next ==
    \/ \E v \in Viewers : Connect(v) \/ Disconnect(v)
    \/ \E v \in Viewers, s \in Serials :
          \/ StartSession(v, s) \/ ListDevicesDone(v, s, MaxSessions)
          \/ ListDevicesRejected(v, s) \/ StopSession(v, s)
    \/ \E id \in 1..Len(sess) : SessionStep(id) \/ ControlClose(id)

Spec == InitBridge /\ [][Next]_vars

\* the steps by which start() resumes after an await
StartStep(id) ==
    \/ PushDone(id) \/ ForwardOk(id) \/ ForwardFail(id) \/ SleepDone(id)
    \/ ConnectVideoOk(id) \/ ConnectVideoFail(id) \/ ConnectControlDone(id)

\* Spec, where a start() that can resume does resume; what the viewers and
\* the device do is not forced
SpecFair == Spec /\ WF_vars(\E id \in 1..Len(sess) : StartStep(id))

(***************************************************************************)
(* SpecRace: two viewers that stay connected, one serial, two sessions     *)
(***************************************************************************)
RaceSerials == {"A"}

NextRace ==
    \/ \E v \in Viewers : Connect(v)
    \/ \E v \in Viewers, s \in RaceSerials :
          \/ StartSession(v, s) \/ ListDevicesDone(v, s, MaxRaceSessions)
          \/ StopSession(v, s)
    \/ \E id \in 1..Len(sess) : SessionStep(id)

SpecRace == InitBridge /\ [][NextRace]_vars

\* a session that was constructed and neither closed nor failed to start
Live(id) == ~sess[id].closed /\ sess[id].pc # "failed"

\* C1. Single session: no two live sessions have the same serial (a second
\* startSession for a serial whose session is being started only subscribes).
C1_SingleSession ==
    \A i, j \in 1..Len(sess) :
        (i # j /\ sess[i].serial = sess[j].serial) => ~(Live(i) /\ Live(j))

\* C4. Port disjointness: the k-th session constructed holds port
\* 27200 + 2 * (k - 1), so ports strictly increase in construction order and
\* no two sessions hold the same port.
C4_PortDisjointness ==
    /\ portCounter = Len(sess)
    /\ \A k \in 1..Len(sess) : sess[k].videoPort = 27200 + 2 * (k - 1)
    /\ \A i, j \in 1..Len(sess) : i < j => sess[i].videoPort < sess[j].videoPort

\* two sessions are live and streaming at the same time
C4_Witness ==
    /\ Len(sess) >= 2
    /\ \A id \in 1..2 : Live(id) /\ sess[id].pc = "started"
                         /\ sess[id].videoSocket = "open"

\* C5. Subscriber isolation: every frame message a handler sends goes to a
\* viewer that is in the subscriber set of the frame's serial, and that serial
\* is the serial of the session that emitted the frame.
C5_SubscriberIsolation ==
    \A i \in 1..Len(last.sends) :
        last.sends[i].type = "frame" =>
            /\ last.sends[i].serial \in DOMAIN subscribers
            /\ last.sends[i].to \in subscribers[last.sends[i].serial]
            /\ last.sends[i].serial = sess[last.sends[i].sid].serial

\* a frame of B was sent while an open viewer is subscribed to A and not to B
C5_Witness ==
    /\ \E i \in 1..Len(last.sends) :
          last.sends[i].type = "frame" /\ last.sends[i].serial = "B"
    /\ \E v \in Viewers :
          /\ wsState[v] = "open"
          /\ "A" \in DOMAIN subscribers /\ v \in subscribers["A"]
          /\ v \notin subscribers["B"]

\* C7. close() is idempotent: closed is emitted, the subprocess killed and
\* the forward released at most once per session, and a handler that calls
\* close() on a session already closed changes nothing of it but the state of
\* the socket whose event it handles, leaves the registry as it is and sends
\* no sessionClosed.
C7_CloseIdempotent ==
    /\ [](\A id \in 1..Len(sess) :
            /\ sess[id].closedEmits <= 1
            /\ sess[id].killCalls <= 1
            /\ sess[id].removeCalls <= 1
            /\ sess[id].closed <=> sess[id].closedEmits = 1)
    /\ [][(last'.closeOn # 0 /\ last'.wasClosed) =>
            /\ [sess'[last'.closeOn] EXCEPT
                   !.videoSocket = sess[last'.closeOn].videoSocket]
                 = sess[last'.closeOn]
            /\ sessions' = sessions
            /\ \A i \in 1..Len(last'.sends) :
                  last'.sends[i].type # "sessionClosed"]_vars
    /\ [][(last'.closeOn # 0 /\ ~last'.wasClosed) =>
            /\ ~sess[last'.closeOn].closed
            /\ sess'[last'.closeOn].closed
            /\ sess'[last'.closeOn].closedEmits = 1
            /\ sess'[last'.closeOn].removeCalls = 1
            /\ sess'[last'.closeOn].videoSocket # "open"
            /\ sess'[last'.closeOn].controlSocket # "open"
            /\ sess'[last'.closeOn].serverProc # "null"
                  => sess'[last'.closeOn].killCalls = 1]_vars

\* close() was called on a session that was closed before
C7_Witness == last.closeOn # 0 /\ last.wasClosed

(***************************************************************************)
(* Session events as the viewers see them                                  *)
(***************************************************************************)
\* C11. closed is terminal: no frame and no sessionStarted message is sent
\* for a session that has emitted closed.
C11_ClosedTerminal ==
    \A i \in 1..Len(last.sends) :
        last.sends[i].type \in {"frame", "sessionStarted"} /\ last.sends[i].sid # 0
            => ~sess[last.sends[i].sid].closed

\* C12. A closed session whose start() has finished owns no live resource:
\* no open socket, no running subprocess, no forward in place.
C12_ClosedOwnsNothing ==
    \A id \in 1..Len(sess) :
        (sess[id].closed /\ sess[id].pc \in {"started", "failed"}) =>
            /\ sess[id].videoSocket # "open"
            /\ sess[id].controlSocket # "open"
            /\ sess[id].serverProc # "running"
            /\ ~sess[id].forward

\* C13. Within the messages of one handler no frame message of a session
\* precedes a sessionStarted message of the same session to the same viewer.
C13_NameBeforeFrame ==
    \A i, j \in 1..Len(last.sends) :
        (i < j /\ last.sends[i].type = "frame"
               /\ last.sends[j].type = "sessionStarted")
            => ~(last.sends[i].sid = last.sends[j].sid
                 /\ last.sends[i].to = last.sends[j].to)

\* C16. Every socket error message is followed, in the same handler and for
\* the same viewer, by the sessionClosed message of that session.
C16_ErrorThenClosed ==
    \A i \in 1..Len(last.sends) :
        (last.sends[i].type = "error" /\ last.sends[i].body = "socket error") =>
            \E j \in (i + 1)..Len(last.sends) :
                /\ last.sends[j].type = "sessionClosed"
                /\ last.sends[j].sid = last.sends[i].sid
                /\ last.sends[j].to = last.sends[i].to

\* C14. An input intent (touch, back, home, app-switch) handled by a session
\* that has no control socket or has been closed makes no write() call.
C14_InputNoOp ==
    (/\ inLast.kind \in {"touch", "back", "home", "appswitch"}
     /\ inSess.controlSocket = "null" \/ inSess.closed)
        => Len(inWrites) = inLast.before

\* C15. A session whose video socket or control socket was closed by the
\* peer is eventually closed and out of the registry.
C15_SocketFailureCloses ==
    \A id \in 1..MaxSessions :
        []((/\ id <= Len(sess)
            /\ (sess[id].videoSocket = "ended" \/ sess[id].controlSocket = "ended"))
           => <>(/\ id <= Len(sess)
                 /\ sess[id].closed
                 /\ \A s \in DOMAIN sessions : sessions[s] # id))

\* C17. A failed start: the session has handled no data and relays no frame;
\* the step that fails it removes the registry entry of its serial and sends
\* the error to every open subscriber of the serial; every session
\* constructed afterwards takes the registry entry and a port no session had.
C17_FailedStart ==
    /\ [](\A id \in 1..Len(sess) :
            sess[id].pc = "failed" =>
                /\ sess[id].spos = 0
                /\ sess[id].parser = NewParser
                /\ sess[id].deviceName = Unknown)
    /\ [](\A i \in 1..Len(last.sends) :
            last.sends[i].type = "frame" => sess[last.sends[i].sid].pc = "started")
    /\ [][\A id \in 1..Len(sess) :
            (sess[id].pc # "failed" /\ sess'[id].pc = "failed") =>
                /\ sess[id].serial \notin DOMAIN sessions'
                /\ sess[id].serial \in DOMAIN subscribers =>
                      \A v \in subscribers[sess[id].serial] \cap OpenViewers :
                          \E i \in 1..Len(last'.sends) :
                              last'.sends[i] = Msg(v, "error", sess[id].serial, id,
                                                   "Failed to start session")]_vars
    /\ [][Len(sess') > Len(sess) =>
            /\ Len(sess') = Len(sess) + 1
            /\ sessions'[sess'[Len(sess')].serial] = Len(sess')
            /\ sess'[Len(sess')].pc = "push"
            /\ \A id \in 1..Len(sess) :
                  sess'[Len(sess')].videoPort # sess[id].videoPort]_vars

\* the only viewer ever connected started serial A twice: the first start
\* failed, the second one constructed a session that streams on the next port
C17_Witness ==
    /\ wsState["v2"] = "none"
    /\ Len(sess) = 2
    /\ sess[1].pc = "failed" /\ ~sess[1].closed
    /\ sess[2].serial = sess[1].serial
    /\ sess[2].pc = "started" /\ ~sess[2].closed
    /\ sess[2].videoPort = 27202

\* C18. start() runs prepare, forward, launch, video connect, control
\* connect in this order: what a session holds at each position, and which
\* position follows which. A forward failure fails the start with no
\* subprocess and no socket, a video connect failure fails it, and the
\* control connect leads to started whether it succeeded or not.
C18_StartOrder ==
    /\ [](\A id \in 1..Len(sess) :
            /\ sess[id].pc \in {"push", "forward"} =>
                  /\ sess[id].serverProc = "null" /\ ~sess[id].forward
                  /\ sess[id].videoSocket = "null" /\ sess[id].controlSocket = "null"
            /\ sess[id].pc \in {"sleep", "connectVideo"} =>
                  /\ sess[id].serverProc # "null"
                  /\ sess[id].videoSocket = "null" /\ sess[id].controlSocket = "null"
            /\ sess[id].pc = "connectControl" =>
                  /\ sess[id].serverProc # "null"
                  /\ sess[id].videoSocket # "null" /\ sess[id].controlSocket = "null"
            /\ sess[id].pc = "started" =>
                  sess[id].serverProc # "null" /\ sess[id].videoSocket # "null"
            /\ sess[id].pc = "failed" =>
                  sess[id].videoSocket = "null" /\ sess[id].controlSocket = "null")
    /\ [][\A id \in 1..Len(sess) :
            LET a == sess[id].pc
                b == sess'[id].pc
            IN  a # b =>
                  \/ a = "push" /\ b = "forward"
                  \/ a = "forward" /\ b = "sleep" /\ sess'[id].serverProc = "running"
                  \/ a = "forward" /\ b = "failed" /\ sess'[id].serverProc = "null"
                  \/ a = "sleep" /\ b = "connectVideo"
                  \/ a = "connectVideo" /\ b = "connectControl"
                                          /\ sess'[id].videoSocket = "open"
                  \/ a = "connectVideo" /\ b = "failed"
                  \/ a = "connectControl" /\ b = "started"]_vars

\* a session streams without a control socket
C18_Witness ==
    \E id \in 1..Len(sess) :
        /\ sess[id].pc = "started" /\ ~sess[id].closed
        /\ sess[id].videoSocket = "open" /\ sess[id].controlSocket = "null"
        /\ sess[id].spos > 0

\* C19. A stop intent leaves the subscriber sets (and the connections, the
\* port counter, the pending starts) as they are; with a session in the
\* registry for the serial it calls close() on that session, which is closed
\* afterwards, and touches no other session; without one it changes nothing
\* and sends nothing.
C19_StopEffect ==
    [][\A v \in Viewers, s \in Serials :
          StopSession(v, s) =>
              /\ subscribers' = subscribers
              /\ wsState' = wsState /\ portCounter' = portCounter
              /\ pending' = pending
              /\ IF s \in DOMAIN sessions
                 THEN /\ last'.closeOn = sessions[s]
                      /\ sess'[sessions[s]].closed
                      /\ s \notin DOMAIN sessions'
                      /\ \A id \in 1..Len(sess) :
                            id # sessions[s] => sess'[id] = sess[id]
                 ELSE /\ sess' = sess /\ sessions' = sessions
                      /\ last' = Op(<<>>)]_vars

\* a stop closed a session that was still starting, and the serial still has
\* its subscribers
C19_Witness ==
    /\ last.closeOn # 0 /\ ~last.wasClosed
    /\ sess[last.closeOn].pc = "sleep"
    /\ sess[last.closeOn].serial \in DOMAIN subscribers
    /\ subscribers[sess[last.closeOn].serial] # {}

\* C20. A disconnected viewer is in no subscriber set; the disconnect step
\* removes it from every set, keeps every other member, and leaves every
\* session and the registry as they are.
C20_DisconnectEffect ==
    /\ [](\A v \in Viewers :
            wsState[v] = "closed" => \A s \in DOMAIN subscribers : v \notin subscribers[s])
    /\ [][\A v \in Viewers :
            Disconnect(v) =>
                /\ sess' = sess /\ sessions' = sessions
                /\ portCounter' = portCounter /\ pending' = pending
                /\ \A s \in DOMAIN subscribers' : v \notin subscribers'[s]
                /\ \A s \in DOMAIN subscribers :
                      subscribers[s] \ {v} # {} =>
                          /\ s \in DOMAIN subscribers'
                          /\ subscribers'[s] = subscribers[s] \ {v}]_vars

\* the last subscriber of a serial has disconnected and the session of that
\* serial goes on streaming
C20_Witness ==
    /\ \E v \in Viewers : wsState[v] = "closed"
    /\ \E id \in 1..Len(sess) :
          /\ sess[id].pc = "started" /\ ~sess[id].closed
          /\ sess[id].videoSocket = "open"
          /\ sess[id].serial \in DOMAIN sessions
          /\ sess[id].serial \notin DOMAIN subscribers

(***************************************************************************)
(* The frames of the device's stream by their place in it                  *)
(***************************************************************************)
\* the offset in the stream at which the k-th frame is complete
FrameEnd(k) == HeaderLen + Len(EncodeFrames(SubSeq(SessionFrames, 1, k)))

\* how many frames are complete within the first n bytes of the stream
FramesBy(n) == Cardinality({k \in 1..Len(SessionFrames) : FrameEnd(k) <= n})

\* the packet of a frame: the 8 timestamp bytes as four 16-bit limbs
PacketOfFrame(f) ==
    LET pts == [i \in 1..4 |-> f.ts[2 * i - 1] * 256 + f.ts[2 * i]]
    IN  [type |-> "packet", pts |-> pts, isConfig |-> pts = PTS_CONFIG,
         data |-> f.data]

\* the bodies of the frame messages of session sid to viewer v, in order
RECURSIVE FrameBodies(_, _, _)
FrameBodies(sends, v, sid) ==
    IF sends = <<>> THEN <<>>
    ELSE (IF Head(sends).type = "frame" /\ Head(sends).to = v /\ Head(sends).sid = sid
          THEN <<Head(sends).body>> ELSE <<>>)
         \o FrameBodies(Tail(sends), v, sid)

C21_LifecycleToSubscribers ==
    \A i \in 1..Len(last.sends) :
        last.sends[i].type \in {"sessionStarted", "sessionClosed", "error"} =>
            /\ last.sends[i].serial \in DOMAIN subscribers
            /\ last.sends[i].to \in subscribers[last.sends[i].serial]

\* C23. When listDevices() rejects during a start intent, no session is
\* constructed, the registry stays as it is, and the requesting viewer, if
\* still open, is sent an error for the serial.
C23_DiscoveryFailureReported ==
    [][\A v \in Viewers, s \in Serials :
          ListDevicesRejected(v, s) =>
              /\ sess' = sess /\ sessions' = sessions
              /\ wsState[v] = "open" =>
                    \E i \in 1..Len(last'.sends) :
                        /\ last'.sends[i].type = "error"
                        /\ last'.sends[i].to = v
                        /\ last'.sends[i].serial = s]_vars

\* C24. The registry entry of a session is removed only by a step in which
\* that very session is closed or fails to start.
C24_OwnEntryOnly ==
    [][\A s \in DOMAIN sessions :
          s \notin DOMAIN sessions' =>
              \/ ~sess[sessions[s]].closed /\ sess'[sessions[s]].closed
              \/ sess[sessions[s]].pc # "failed" /\ sess'[sessions[s]].pc = "failed"]_vars

\* C25. A session whose start has failed has no running subprocess and no
\* forward in place.
C25_FailedStartReleases ==
    \A id \in 1..Len(sess) :
        sess[id].pc = "failed" =>
            sess[id].serverProc # "running" /\ ~sess[id].forward

====
